---- MODULE Spec2Model ----
(***************************************************************************)
(* Model of the Minesweeper knowledge engine of minesweeper.py             *)
(* (classes Minesweeper, Sentence, MinesweeperAI).                         *)
(*                                                                         *)
(* A cell is a pair <<i, j>>.  A Sentence is a record [cells, count].      *)
(* The engine (MinesweeperAI) is the four variables moves_made, mines,     *)
(* safes, knowledge; board is the mine set of the Minesweeper game that    *)
(* answers the observations.                                               *)
(*                                                                         *)
(* In the source, the statements that update the knowledge base sit in a   *)
(* function add_knowledge that is defined INSIDE the method                *)
(* MinesweeperAI.add_knowledge (line 203) and is never called: the method  *)
(* itself only holds a docstring and that nested def.  The model follows   *)
(* the code: a call of add_knowledge returns with the engine unchanged.    *)
(* Sentence.mark_mine / Sentence.mark_safe read self.mines, self.safe and  *)
(* self.knowledge, which a Sentence does not have: they raise              *)
(* AttributeError whenever they are called.                                *)
(***************************************************************************)
EXTENDS Integers, FiniteSets, Sequences, TLC

VARIABLES board, moves_made, mines, safes, knowledge, pc, arg, pre, observed,
          last, ttt

vars == <<board, moves_made, mines, safes, knowledge, pc, arg, pre, observed,
          last, ttt>>

(* ------------------------------ bounds --------------------------------- *)

\* Largest number of mines on a board.
MaxMines == 2

\* Largest number of sentences in a prepared knowledge base.
MaxSentences == 2

(* ------------------------------ the grid ------------------------------- *)

\* MinesweeperAI(height, width): the 3 x 3 grid of the end-to-end scenario.
Height == 3

Width == 3

\* set((i, j) for i in range(self.height) for j in range(self.width))
Cells == (0 .. Height - 1) \X (0 .. Width - 1)

\* The cells within one row and column of cell, in bounds, cell excluded.
Neighbors(cell) ==
    { c \in Cells : /\ c # cell
                    /\ c[1] \in (cell[1] - 1) .. (cell[1] + 1)
                    /\ c[2] \in (cell[2] - 1) .. (cell[2] + 1) }

\* Minesweeper.nearby_mines on a board whose mine set is b.
nearby_mines(b, cell) == Cardinality(Neighbors(cell) \cap b)

\* Minesweeper.is_mine
is_mine(b, cell) == cell \in b

(* ------------------------------ Sentence ------------------------------- *)

Sentence(cells, count) == [cells |-> cells, count |-> count]

\* Sentence.__eq__
SentenceEq(s, t) == s.cells = t.cells /\ s.count = t.count

\* known_mines with the test "count > 0" for "len(cells) == count".
known_mines_positive(s) == IF s.count > 0 THEN s.cells ELSE {}

known_mines(s) == IF Cardinality(s.cells) = s.count THEN s.cells ELSE {}

known_safes(s) ==
    IF Cardinality(s.cells) = s.count THEN {}
    ELSE IF s.count = 0 THEN s.cells
    ELSE {}

(* ------------------------------ the engine ----------------------------- *)

\* The engine's fields as one record.
AI == [moves_made |-> moves_made, mines |-> mines, safes |-> safes,
       knowledge |-> knowledge]

\* MinesweeperAI.__init__
NewAI == [moves_made |-> {}, mines |-> {}, safes |-> {}, knowledge |-> <<>>]

\* mark_mine that takes the cell out of safes as it puts it into mines.
AI_mark_mine_moves(ai, cell) ==
    [ai |-> [ai EXCEPT !.mines = @ \cup {cell}, !.safes = @ \ {cell}],
     raised |-> Len(ai.knowledge) > 0]

\* mark_mine whose sentences take the cell out and decrement their count,
\* the decrement outside the test "cell in sentence.cells".
AI_mark_mine_decrements(ai, cell) ==
    [ai |-> [ai EXCEPT !.mines = @ \cup {cell},
                       !.knowledge = [k \in DOMAIN @ |->
                           [cells |-> @[k].cells \ {cell},
                            count |-> @[k].count - 1]]],
     raised |-> FALSE]

\* MinesweeperAI.mark_mine: the cell is added to mines, then the loop calls
\* Sentence.mark_mine on the first sentence, which raises AttributeError
\* before it changes anything.  No sentence is ever changed.
AI_mark_mine(ai, cell) ==
    [ai |-> [ai EXCEPT !.mines = @ \cup {cell}],
     raised |-> Len(ai.knowledge) > 0]

\* MinesweeperAI.mark_safe: likewise.
AI_mark_safe(ai, cell) ==
    [ai |-> [ai EXCEPT !.safes = @ \cup {cell}],
     raised |-> Len(ai.knowledge) > 0]

(* ---------------- variants of add_knowledge's body --------------------- *)
(* Each is the body below changed the way a slip in that code would change *)
(* it; the properties further down are checked to tell them from the code. *)

\* The unknown neighbours of cell once cell itself is known safe
\* (the filter of lines 211-221).
UnknownNeighbors(ai, cell) ==
    { n \in Neighbors(cell) : n \notin ai.safes \cup {cell} /\ n \notin ai.mines }

\* Steps 1-4 of the nested function run as the method's body, followed by
\* one pass of known_mines / known_safes over the new sentence: the count is
\* not reduced by the neighbours that are already known mines.
add_knowledge_no_discount(ai, cell, count) ==
    LET s == Sentence(UnknownNeighbors(ai, cell), count)
    IN  [ai EXCEPT !.moves_made = @ \cup {cell},
                   !.safes = @ \cup {cell} \cup known_safes(s),
                   !.mines = @ \cup known_mines(s),
                   !.knowledge = IF s.cells # {} THEN Append(@, s) ELSE @]

\* Every unknown neighbour of a cell with a positive count taken for a mine.
add_knowledge_any_count(ai, cell, count) ==
    [ai EXCEPT !.moves_made = @ \cup {cell},
               !.safes = @ \cup {cell},
               !.mines = @ \cup (IF count > 0 THEN UnknownNeighbors(ai, cell)
                                 ELSE {})]

\* The observed cell removed from every sentence, the count decremented as
\* for a mine, also in the sentences that do not hold the cell.
add_knowledge_decrements(ai, cell, count) ==
    [ai EXCEPT !.moves_made = @ \cup {cell},
               !.safes = @ \cup {cell},
               !.knowledge = [k \in DOMAIN @ |->
                                 Sentence(@[k].cells \ {cell}, @[k].count - 1)]]

\* Steps 1-4 of the nested function (lines 204-226) run as the method's
\* body: the new sentence is appended whether or not the knowledge base
\* holds an equal one.
add_knowledge_appends(ai, cell, count) ==
    LET new_sentence == Sentence(UnknownNeighbors(ai, cell), count)
    IN  [ai EXCEPT !.moves_made = @ \cup {cell},
                   !.safes = @ \cup {cell},
                   !.knowledge = IF new_sentence.cells # {}
                                 THEN Append(@, new_sentence) ELSE @]

(* ---------------- MinesweeperAI.add_knowledge -------------------------- *)

\* The engine after the statements of MinesweeperAI.add_knowledge: a
\* docstring and the definition of a local function that is never called.
add_knowledge_body(ai, cell, count) == ai

(* ------------------------------ tic-tac-toe ---------------------------- *)
(* tictactoe.py: a board is a 3 x 3 list of X, O or EMPTY, here a function *)
(* from the pairs <<i, j>> to "X", "O" or "EMPTY".                         *)

X == "X"

O == "O"

EMPTY == "EMPTY"

\* for i in range(3): for j in range(3)
TCells == (0 .. 2) \X (0 .. 2)

initial_state == [c \in TCells |-> EMPTY]

(* ------------------------------ states --------------------------------- *)

NoArg == [cell |-> <<-1, -1>>, count |-> -1]

\* None, where a cell is expected.
None == <<-1, -1>>

\* The last call of mark_safe, mark_mine, make_safe_move, make_random_move
\* or of a Sentence method: its name, its argument, whether it raised,
\* whether it repeats the call before it, and what it returned (ret: a
\* cell or None; out, out2: sets; idx: the sentences it was called on).
NoLast == [op |-> "none", cell |-> None, raised |-> FALSE, again |-> FALSE,
           ret |-> None, out |-> {}, out2 |-> {}, idx |-> <<>>]

\* The tic-tac-toe game: its board, the player who follows minimax ("none":
\* both play any action), and the number of moves made.
NewGame == [board |-> initial_state, hero |-> "none", moves |-> 0]

Boards == { b \in SUBSET Cells : Cardinality(b) <= MaxMines }

TypeOK ==
    /\ board \in Boards
    /\ moves_made \subseteq Cells
    /\ mines \subseteq Cells
    /\ safes \subseteq Cells
    /\ pc \in {"idle", "add_knowledge"}
    /\ observed \subseteq Cells

\* A new game and a new engine.
Init ==
    /\ board \in Boards
    /\ moves_made = NewAI.moves_made
    /\ mines = NewAI.mines
    /\ safes = NewAI.safes
    /\ knowledge = NewAI.knowledge
    /\ pc = "idle"
    /\ arg = NoArg
    /\ pre = NewAI
    /\ observed = {}
    /\ last = NoLast
    /\ ttt = NewGame

(* ------------------------------ actions -------------------------------- *)

\* The game reveals a cell that is not a mine and calls
\* ai.add_knowledge(cell, game.nearby_mines(cell)).
Observe(cell) ==
    /\ pc = "idle"
    /\ ~ is_mine(board, cell)
    /\ pc' = "add_knowledge"
    /\ arg' = [cell |-> cell, count |-> nearby_mines(board, cell)]
    /\ pre' = AI
    /\ last' = NoLast
    /\ UNCHANGED <<board, moves_made, mines, safes, knowledge, observed, ttt>>

\* The call never leaves its loop ("while changed" with changed never reset).
add_knowledge_spins ==
    /\ pc = "add_knowledge"
    /\ UNCHANGED vars

\* The call runs to its end and returns.
add_knowledge ==
    /\ pc = "add_knowledge"
    /\ LET post == add_knowledge_body(AI, arg.cell, arg.count)
       IN  /\ moves_made' = post.moves_made
           /\ mines' = post.mines
           /\ safes' = post.safes
           /\ knowledge' = post.knowledge
    /\ pc' = "idle"
    /\ observed' = observed \cup {arg.cell}
    /\ UNCHANGED <<board, arg, pre, last, ttt>>

Next ==
    \/ \E cell \in Cells : Observe(cell)
    \/ add_knowledge

Spec == Init /\ [][Next]_vars

\* A call of add_knowledge has returned.
Returned == pc = "idle" /\ arg # NoArg

\* Every call that starts is run on: the engine is single-threaded and
\* nothing suspends a call.
LiveSpec == Spec /\ WF_vars(add_knowledge)

(* ------------- a knowledge base prepared before the call --------------- *)
(* The fields of MinesweeperAI are public, and the scenarios of the        *)
(* specification start from given sentences ({A,B,C} = 1 and {A,B} = 1).   *)
(* SpecKB starts from an engine whose fields hold true facts about the     *)
(* board over the cells A, B, C of the first row: some of them known safe  *)
(* or known mines, and up to MaxSentences distinct, non-empty sentences    *)
(* over the others, each with the true count of its cells.  One            *)
(* observation follows.                                                    *)

ScenarioCells == { c \in Cells : c[1] = 0 }

TrueSentence(b, cells) == Sentence(cells, Cardinality(cells \cap b))

PreparedKBs(b, unknown) ==
    LET sents == { TrueSentence(b, cs) : cs \in (SUBSET unknown) \ {{}} }
    IN  { kb \in UNION { [1 .. n -> sents] : n \in 0 .. MaxSentences } :
            \A i, j \in DOMAIN kb : i # j => ~ SentenceEq(kb[i], kb[j]) }

InitKB ==
    /\ board \in Boards
    /\ moves_made = {}
    /\ \E known \in SUBSET ScenarioCells :
          /\ mines = known \cap board
          /\ safes = known \ board
          /\ knowledge \in PreparedKBs(board, ScenarioCells \ known)
    /\ pc = "idle"
    /\ arg = NoArg
    /\ pre = AI
    /\ observed = {}
    /\ last = NoLast
    /\ ttt = NewGame

NextKB ==
    \/ /\ observed = {}
       /\ \E cell \in Cells : Observe(cell)
    \/ add_knowledge

SpecKB == InitKB /\ [][NextKB]_vars

(* ------------------------------ claims --------------------------------- *)

\* C1: after a call add_knowledge(cell, n) has returned, cell is in
\* moves_made and cell is in safes.
C1_ObservedCellRecorded ==
    Returned => arg.cell \in moves_made /\ arg.cell \in safes

\* C2: soundness: under truthful observations of cells that are not mines,
\* every cell of mines is a mine of the board and no cell of safes is one.
C2_Soundness == mines \subseteq board /\ safes \cap board = {}

\* An observation with a positive count has returned after others, on a
\* board with two mines.
C2_Witness ==
    /\ Returned
    /\ arg.count > 0
    /\ Cardinality(board) = 2
    /\ Cardinality(observed) >= 3
    /\ mines \subseteq board /\ safes \cap board = {}

\* C3: in every state reached by truthful observations, safes and mines are
\* disjoint.
C3_Disjoint == safes \cap mines = {}

\* The same cell has been observed again after a neighbour of it was.
C3_Witness ==
    /\ Returned
    /\ arg.cell \in observed
    /\ Neighbors(arg.cell) \cap observed # {}
    /\ pre = AI
    /\ safes \cap mines = {}

\* C4: termination: every call of add_knowledge that starts returns.
C4_Termination == (pc = "add_knowledge") ~> Returned

\* Every cell that is not a mine has been observed and the last call has
\* returned.
C4_Witness == Returned /\ observed = Cells \ board /\ board # {}

\* C5: every sentence of the knowledge base has 0 <= count <= |cells|.
C5_CountInRange ==
    \A k \in DOMAIN knowledge :
        /\ 0 <= knowledge[k].count
        /\ knowledge[k].count <= Cardinality(knowledge[k].cells)

\* An observation has returned with a sentence of count 0 and a sentence
\* whose cells are all mines in the knowledge base.
C5_Witness ==
    /\ Returned
    /\ \E k \in DOMAIN knowledge : knowledge[k].count = 0
    /\ \E k \in DOMAIN knowledge :
          knowledge[k].count = Cardinality(knowledge[k].cells)

\* C6: after a call of add_knowledge has returned, no sentence holds a cell
\* of safes or of mines, whatever calls of mark_safe and mark_mine came
\* before it.
C6_NoKnownCell ==
    Returned =>
        \A k \in DOMAIN knowledge :
            knowledge[k].cells \cap (safes \cup mines) = {}

\* C7: after a call has returned, the cells of every sentence with
\* count = 0 are in safes and the cells of every sentence with
\* count = |cells| are in mines.
C7_TrivialResolved ==
    Returned =>
        \A k \in DOMAIN knowledge :
            /\ knowledge[k].count = 0 => knowledge[k].cells \subseteq safes
            /\ knowledge[k].count = Cardinality(knowledge[k].cells)
                   => knowledge[k].cells \subseteq mines

\* C8: after a call of add_knowledge has returned, no sentence of the
\* knowledge base is empty and no two entries are equal, also after
\* mark_safe or mark_mine was called on a cell by which two sentences
\* differ and when the same observation is made twice.
C8_DistinctLive ==
    Returned =>
        /\ \A k \in DOMAIN knowledge : knowledge[k].cells # {}
        /\ \A i, j \in DOMAIN knowledge :
               i # j => ~ SentenceEq(knowledge[i], knowledge[j])

\* The same observation has been made for the second time and has returned,
\* after mark_safe was called on a cell by which alone two sentences of
\* equal count differ.
C8_Witness ==
    /\ Returned
    /\ last.op = "add_knowledge"
    /\ last.again
    /\ \E c \in safes : \E i, j \in DOMAIN knowledge :
          /\ i # j
          /\ c \in knowledge[i].cells
          /\ knowledge[i].cells \ {c} = knowledge[j].cells
          /\ knowledge[i].count = knowledge[j].count

\* C9: when the knowledge base holds sentences A and B with A.cells a
\* proper subset of B.cells, then after the call has returned the cells of
\* B.cells - A.cells are in safes if B.count - A.count = 0 and in mines if
\* B.count - A.count = |B.cells - A.cells|.
C9_SubsetResolved ==
    Returned =>
        \A i, j \in DOMAIN pre.knowledge :
            LET A == pre.knowledge[i]
                B == pre.knowledge[j]
                diff_cells == B.cells \ A.cells
                diff_count == B.count - A.count
            IN  (A.cells \subseteq B.cells /\ A.cells # B.cells) =>
                    /\ diff_count = 0 => diff_cells \subseteq safes
                    /\ diff_count = Cardinality(diff_cells)
                           => diff_cells \subseteq mines

\* C10: 3 x 3 grid, one mine at (0,0): once (1,1), (0,1) and the other six
\* cells that are not mines have been observed, mines = {(0,0)}.
C10_MineFound ==
    ( /\ board = {<<0, 0>>}
      /\ pc = "idle"
      /\ observed = Cells \ board ) => mines = {<<0, 0>>}

(* ------------------ mark_safe and mark_mine called directly ------------ *)
(* SpecMark starts from a new engine whose knowledge base holds up to      *)
(* MaxSentences true sentences over the cells A, B, C of the first row,     *)
(* calls mark_safe and mark_mine on A and B, and add_knowledge on a cell   *)
(* of that row.  A call that                                               *)
(* raises AttributeError leaves the engine as it was when the exception    *)
(* was raised; a caller that catches it can call again.                    *)

mark_safe(cell) ==
    /\ pc = "idle"
    /\ LET r == AI_mark_safe(AI, cell)
       IN  /\ moves_made' = r.ai.moves_made
           /\ mines' = r.ai.mines
           /\ safes' = r.ai.safes
           /\ knowledge' = r.ai.knowledge
           /\ last' = [NoLast EXCEPT !.op = "mark_safe", !.cell = cell,
                           !.raised = r.raised,
                           !.again = (last.op = "mark_safe" /\ last.cell = cell)]
    /\ pre' = AI
    /\ UNCHANGED <<board, pc, arg, observed, ttt>>

mark_mine(cell) ==
    /\ pc = "idle"
    /\ LET r == AI_mark_mine(AI, cell)
       IN  /\ moves_made' = r.ai.moves_made
           /\ mines' = r.ai.mines
           /\ safes' = r.ai.safes
           /\ knowledge' = r.ai.knowledge
           /\ last' = [NoLast EXCEPT !.op = "mark_mine", !.cell = cell,
                           !.raised = r.raised,
                           !.again = (last.op = "mark_mine" /\ last.cell = cell)]
    /\ pre' = AI
    /\ UNCHANGED <<board, pc, arg, observed, ttt>>

\* The cells A and B of the first row.
MarkCells == ScenarioCells \ {<<0, Width - 1>>}

InitMark ==
    /\ board \in { b \in Boards : b \subseteq ScenarioCells }
    /\ moves_made = NewAI.moves_made
    /\ mines = NewAI.mines
    /\ safes = NewAI.safes
    /\ knowledge \in PreparedKBs(board, ScenarioCells)
    /\ pc = "idle"
    /\ arg = NoArg
    /\ pre = AI
    /\ observed = {}
    /\ last = NoLast
    /\ ttt = NewGame

NextMark ==
    \/ \E cell \in MarkCells : mark_safe(cell)
    \/ \E cell \in MarkCells : mark_mine(cell)
    \/ /\ observed = {}
       /\ \E cell \in ScenarioCells : Observe(cell)
    \/ add_knowledge

SpecMark == InitMark /\ [][NextMark]_vars

\* The game calls ai.add_knowledge a second time for a cell it has observed,
\* with the same count.
ObserveAgain(cell) ==
    /\ pc = "idle"
    /\ cell \in observed
    /\ ~ is_mine(board, cell)
    /\ pc' = "add_knowledge"
    /\ arg' = [cell |-> cell, count |-> nearby_mines(board, cell)]
    /\ pre' = AI
    /\ last' = [NoLast EXCEPT !.op = "add_knowledge", !.cell = cell,
                              !.again = TRUE]
    /\ UNCHANGED <<board, moves_made, mines, safes, knowledge, observed, ttt>>

\* SpecIngest is SpecMark with the observation repeated: calls of mark_safe
\* and mark_mine on A and B, one observation of a cell of the first row,
\* and that observation made again any number of times.
NextIngest ==
    \/ \E cell \in MarkCells : mark_safe(cell)
    \/ \E cell \in MarkCells : mark_mine(cell)
    \/ /\ observed = {}
       /\ \E cell \in ScenarioCells : Observe(cell)
    \/ \E cell \in ScenarioCells : ObserveAgain(cell)
    \/ add_knowledge

SpecIngest == InitMark /\ [][NextIngest]_vars

\* The last call was mark_safe or mark_mine.
Marked == last.op \in {"mark_safe", "mark_mine"}

\* C11: monotonicity: across calls of add_knowledge, mark_safe and
\* mark_mine, safes, mines and moves_made only grow.
C11_Monotonic ==
    [][ /\ moves_made \subseteq moves_made'
        /\ safes \subseteq safes'
        /\ mines \subseteq mines' ]_vars

\* mark_mine has been called on a cell that was known safe, after an
\* observation has returned and another mine was marked.
C11_Witness ==
    /\ last.op = "mark_mine"
    /\ last.cell \in pre.safes
    /\ pre.mines # {}
    /\ Returned

\* C12: idempotence: a call of mark_safe(cell) or mark_mine(cell) that
\* repeats the call before it leaves moves_made, safes, mines and every
\* sentence (cells and count) as they were.
C12_Idempotent ==
    [][ (last'.op \in {"mark_safe", "mark_mine"} /\ last'.again) =>
            /\ moves_made' = moves_made
            /\ safes' = safes
            /\ mines' = mines
            /\ knowledge' = knowledge ]_vars

\* mark_mine has been repeated on a cell that a sentence with a positive
\* count holds.
C12_Witness ==
    /\ last.op = "mark_mine"
    /\ last.again
    /\ \E k \in DOMAIN knowledge :
          last.cell \in knowledge[k].cells /\ knowledge[k].count > 0

\* C15: mark_mine on a cell of safes, or mark_safe on a cell of mines,
\* never leaves the cell in both safes and mines.
C15_NoCorruption ==
    Marked => ~ (last.cell \in safes /\ last.cell \in mines)

\* C19: mark_mine(cell) on a cell that is not in mines completes without
\* error, adds cell to mines, removes cell from every sentence that holds
\* it and decrements that sentence's count by 1, and leaves the other
\* sentences, safes and moves_made unchanged.
C19_MarkMineEffect ==
    (last.op = "mark_mine" /\ last.cell \notin pre.mines) =>
        /\ ~ last.raised
        /\ mines = pre.mines \cup {last.cell}
        /\ safes = pre.safes
        /\ moves_made = pre.moves_made
        /\ DOMAIN knowledge = DOMAIN pre.knowledge
        /\ \A k \in DOMAIN pre.knowledge :
              knowledge[k] =
                  IF last.cell \in pre.knowledge[k].cells
                  THEN Sentence(pre.knowledge[k].cells \ {last.cell},
                                pre.knowledge[k].count - 1)
                  ELSE pre.knowledge[k]

(* --------------- make_safe_move and make_random_move ------------------- *)
(* The results a call can return, as a set: make_safe_move returns the     *)
(* first cell of the set safes that passes its test, in the iteration      *)
(* order of a Python set, and make_random_move draws with random.choice.   *)

\* make_safe_move without the test "safe not in self.moves_made".
make_safe_move_any(ai) ==
    IF ai.safes # {} THEN ai.safes ELSE {None}

make_safe_move(ai) ==
    IF \E safe \in ai.safes : safe \notin ai.moves_made
    THEN { safe \in ai.safes : safe \notin ai.moves_made }
    ELSE {None}

\* make_random_move without "- self.mines".
make_random_move_keeps_mines(ai) ==
    LET possible_moves == Cells \ ai.moves_made
    IN  IF possible_moves # {} THEN possible_moves ELSE {None}

make_random_move(ai) ==
    LET all_moves == Cells
        possible_moves == (all_moves \ ai.moves_made) \ ai.mines
    IN  IF possible_moves # {} THEN possible_moves ELSE {None}

MakeSafeMove ==
    /\ pc = "idle"
    /\ \E r \in make_safe_move(AI) :
          last' = [NoLast EXCEPT !.op = "make_safe_move", !.ret = r,
                                 !.out = make_safe_move(AI)]
    /\ pre' = AI
    /\ UNCHANGED <<board, moves_made, mines, safes, knowledge, pc, arg,
                   observed, ttt>>

MakeRandomMove ==
    /\ pc = "idle"
    /\ \E r \in make_random_move(AI) :
          last' = [NoLast EXCEPT !.op = "make_random_move", !.ret = r,
                                 !.out = make_random_move(AI)]
    /\ pre' = AI
    /\ UNCHANGED <<board, moves_made, mines, safes, knowledge, pc, arg,
                   observed, ttt>>

\* SpecMoves starts from an engine in which every cell is unknown, a move
\* made (and so known safe) or a known mine, and the cells of the first row
\* may also be known safe without having been played.
InitMoves ==
    /\ moves_made \in SUBSET Cells
    /\ mines \in SUBSET (Cells \ moves_made)
    /\ \E unplayed \in SUBSET ((ScenarioCells \ moves_made) \ mines) :
          safes = moves_made \cup unplayed
    /\ board = mines
    /\ knowledge = <<>>
    /\ pc = "idle"
    /\ arg = NoArg
    /\ pre = AI
    /\ observed = {}
    /\ last = NoLast
    /\ ttt = NewGame

NextMoves ==
    \/ MakeSafeMove
    \/ MakeRandomMove

SpecMoves == InitMoves /\ [][NextMoves]_vars

\* C13: make_safe_move returns a cell of safes - moves_made when that set
\* is not empty and None exactly when it is empty; it never returns a cell
\* of moves_made and it changes no field of the engine.
C13_SafeMove ==
    last.op = "make_safe_move" =>
        /\ (safes \ moves_made # {}) => last.ret \in safes \ moves_made
        /\ (last.ret = None) <=> (safes \ moves_made = {})
        /\ last.ret \notin moves_made
        /\ AI = pre

\* make_safe_move has returned a cell while some safe cells were already
\* played and more than one was not.
C13_Witness ==
    /\ last.op = "make_safe_move"
    /\ last.ret # None
    /\ safes \cap moves_made # {}
    /\ Cardinality(safes \ moves_made) > 1

\* C14: make_random_move returns only a cell of the grid that is neither in
\* moves_made nor in mines, every such cell is a possible result, and it
\* returns None exactly when there is no such cell.
C14_RandomMove ==
    LET candidates == { c \in Cells : c \notin moves_made /\ c \notin mines }
    IN  last.op = "make_random_move" =>
            /\ last.ret # None => last.ret \in candidates
            /\ (last.ret = None) <=> (candidates = {})
            /\ candidates # {} => last.out = candidates

\* make_random_move has returned a cell with moves made, mines known and
\* more than one cell to choose from.
C14_Witness ==
    /\ last.op = "make_random_move"
    /\ last.ret # None
    /\ moves_made # {}
    /\ mines # {}
    /\ Cardinality(last.out) > 1

(* ------------------ the methods of one Sentence ------------------------ *)
(* SpecSentence starts with two sentences A and B in knowledge, drawn from *)
(* all the sentences over the cells of the first row with 0 <= count <=    *)
(* |cells|, and a board; it calls known_mines and known_safes on one       *)
(* sentence and runs the subset inference of lines 248-262 over the whole  *)
(* knowledge base, which appends the new sentences to knowledge.           *)

\* Lines 251-257 with the operands swapped in the subtraction.
infer_swapped(s1, s2) ==
    IF SentenceEq(s1, s2) THEN {}
    ELSE IF s1.cells \subseteq s2.cells
         THEN LET diff_cells == s2.cells \ s1.cells
                  diff_count == s1.count - s2.count
              IN  IF diff_cells # {} THEN {Sentence(diff_cells, diff_count)}
                  ELSE {}
         ELSE {}

\* The sentence inferred from s1 and s2 by the subset rule, if any
\* (lines 251-257; the rule sits in the nested function of add_knowledge).
infer(s1, s2) ==
    IF SentenceEq(s1, s2) THEN {}
    ELSE IF s1.cells \subseteq s2.cells
         THEN LET diff_cells == s2.cells \ s1.cells
                  diff_count == s2.count - s1.count
              IN  IF diff_cells # {} THEN {Sentence(diff_cells, diff_count)}
                  ELSE {}
         ELSE {}

ValidSentences ==
    UNION { { Sentence(cs, n) : n \in 0 .. Cardinality(cs) } :
            cs \in SUBSET ScenarioCells }

\* sentence.known_mines() and sentence.known_safes() on sentence k.
KnownCells(k) ==
    /\ pc = "idle"
    /\ last' = [NoLast EXCEPT !.op = "known", !.idx = <<k>>,
                              !.out = known_mines(knowledge[k]),
                              !.out2 = known_safes(knowledge[k])]
    /\ pre' = AI
    /\ UNCHANGED <<board, moves_made, mines, safes, knowledge, pc, arg,
                   observed, ttt>>

\* The ordered pairs (s1, s2) of positions of a knowledge base of n
\* sentences, in the order of the two loops of lines 249-250.
Pairs(n) ==
    [k \in 1 .. n * n |-> <<((k - 1) \div n) + 1, ((k - 1) % n) + 1>>]

\* new_inferences after the first k pairs of the loops of lines 249-259 over
\* the knowledge base kb: the inferred sentence of a pair is appended unless
\* it is already in kb or in new_inferences (line 258).  Each entry keeps
\* the positions of the pair it was inferred from.
RECURSIVE new_inferences(_, _)
new_inferences(kb, k) ==
    IF k = 0 THEN <<>>
    ELSE LET acc == new_inferences(kb, k - 1)
             p == Pairs(Len(kb))[k]
             found == infer(kb[p[1]], kb[p[2]])
         IN  IF found = {} THEN acc
             ELSE LET inferred == CHOOSE d \in found : TRUE
                  IN  IF /\ \A n \in DOMAIN kb : kb[n] # inferred
                         /\ \A n \in DOMAIN acc : acc[n].inferred # inferred
                      THEN Append(acc, [s1 |-> p[1], s2 |-> p[2],
                                        inferred |-> inferred])
                      ELSE acc

\* Step 6 of one round of the loop of add_knowledge (lines 248-262): the
\* subset rule over every ordered pair of sentences, then
\* knowledge.extend(new_inferences).  A round is taken while the knowledge
\* base has at most MaxSentences sentences.
Infer ==
    /\ pc = "idle"
    /\ Len(knowledge) <= MaxSentences
    /\ LET new == new_inferences(knowledge, Len(knowledge) * Len(knowledge))
       IN  /\ knowledge' = knowledge \o [n \in DOMAIN new |-> new[n].inferred]
           /\ last' = [NoLast EXCEPT !.op = "infer",
                                     !.out = { new[n].inferred :
                                               n \in DOMAIN new },
                                     !.out2 = { new[n] : n \in DOMAIN new }]
    /\ pre' = AI
    /\ UNCHANGED <<board, moves_made, mines, safes, pc, arg, observed, ttt>>

InitSentence ==
    /\ board \in { b \in Boards : b \subseteq ScenarioCells }
    /\ moves_made = {}
    /\ mines = {}
    /\ safes = {}
    /\ \E A, B \in ValidSentences : knowledge = <<A, B>>
    /\ pc = "idle"
    /\ arg = NoArg
    /\ pre = AI
    /\ observed = {}
    /\ last = NoLast
    /\ ttt = NewGame

NextSentence ==
    \/ \E k \in DOMAIN knowledge : KnownCells(k)
    \/ Infer

SpecSentence == InitSentence /\ [][NextSentence]_vars

\* count is the number of mines of the board among cells.
TrueOf(s) == s.count = Cardinality(s.cells \cap board)

\* C16: for a sentence C with 0 <= count <= |cells|, known_mines is C.cells
\* when |C.cells| = C.count and empty otherwise, known_safes is C.cells when
\* C.count = 0 and empty otherwise, the two are never both non-empty, and
\* neither call changes C.
C16_KnownCells ==
    last.op = "known" =>
        LET C == knowledge[last.idx[1]]
        IN  (0 <= C.count /\ C.count <= Cardinality(C.cells)) =>
                /\ last.out = IF Cardinality(C.cells) = C.count
                              THEN C.cells ELSE {}
                /\ last.out2 = IF C.count = 0 THEN C.cells ELSE {}
                /\ ~ (last.out # {} /\ last.out2 # {})
                /\ C = pre.knowledge[last.idx[1]]

\* The two methods were called on a sentence with more than one cell and a
\* count that is neither 0 nor the number of its cells.
C16_Witness ==
    /\ last.op = "known"
    /\ LET C == knowledge[last.idx[1]]
       IN  /\ Cardinality(C.cells) > 1
           /\ 0 < C.count
           /\ C.count < Cardinality(C.cells)
           /\ last.out = {}
           /\ last.out2 = {}

\* A count within the range of its cells.
InRange(s) == 0 <= s.count /\ s.count <= Cardinality(s.cells)

\* C17 as stated: for A and B that each satisfy 0 <= count <= |cells| and
\* with A.cells a subset of B.cells, the sentence derived by the subset rule
\* has its count in [0, |B.cells - A.cells|].
C17_DerivedInRange ==
    last.op = "infer" =>
        \A e \in last.out2 :
            (InRange(pre.knowledge[e.s1]) /\ InRange(pre.knowledge[e.s2]))
                => InRange(e.inferred)

\* C17 amended: for A and B with A.cells a subset of B.cells whose counts
\* are both the number of mines of one board among their cells, the
\* sentence derived by the subset rule has its cells B.cells - A.cells and
\* its count in [0, |B.cells - A.cells|].
C17_TrueDerivedInRange ==
    last.op = "infer" =>
        \A e \in last.out2 :
            (TrueOf(pre.knowledge[e.s1]) /\ TrueOf(pre.knowledge[e.s2]))
                => /\ e.inferred.cells = pre.knowledge[e.s2].cells
                                           \ pre.knowledge[e.s1].cells
                   /\ InRange(e.inferred)

\* A sentence was derived from two true sentences, the first with a mine
\* among its cells, and appended to the knowledge base with a positive
\* count.
C17_Witness ==
    /\ last.op = "infer"
    /\ \E e \in last.out2 :
          /\ TrueOf(pre.knowledge[e.s1])
          /\ TrueOf(pre.knowledge[e.s2])
          /\ pre.knowledge[e.s1].count > 0
          /\ e.inferred.count > 0
          /\ knowledge[Len(knowledge)] \in last.out
          /\ Len(knowledge) > Len(pre.knowledge)

(* ------------------------ tic-tac-toe: the game ------------------------ *)

\* The number of cells of b that hold mark m.
Count(b, m) == Cardinality({ c \in TCells : b[c] = m })

\* player with the two marks swapped in the comparison.
player_swapped(b) ==
    IF Count(b, X) > Count(b, O) THEN X ELSE O

player(b) ==
    LET x_count == Count(b, X)
        o_count == Count(b, O)
    IN  IF x_count = o_count THEN X ELSE O

actions(b) == { c \in TCells : b[c] = EMPTY }

\* result raises an Exception for an action out of range or on a taken
\* cell; otherwise it returns a copy of the board with the mark of
\* player(board) at the action.
result(b, action) ==
    IF action \notin TCells THEN "Exception"
    ELSE IF b[action] # EMPTY THEN "Exception"
    ELSE [b EXCEPT ![action] = player(b)]

\* board[c1] == board[c2] == board[c3] != EMPTY
Line(b, c1, c2, c3) == b[c1] = b[c2] /\ b[c2] = b[c3] /\ b[c3] # EMPTY

\* The result None of winner.
NoWinner == "None"

winner(b) ==
    IF \E i \in 0 .. 2 : Line(b, <<i, 0>>, <<i, 1>>, <<i, 2>>)
    THEN LET i == CHOOSE i \in 0 .. 2 :
                      /\ Line(b, <<i, 0>>, <<i, 1>>, <<i, 2>>)
                      /\ \A k \in 0 .. 2 :
                            Line(b, <<k, 0>>, <<k, 1>>, <<k, 2>>) => i <= k
         IN  b[<<i, 0>>]
    ELSE IF \E j \in 0 .. 2 : Line(b, <<0, j>>, <<1, j>>, <<2, j>>)
    THEN LET j == CHOOSE j \in 0 .. 2 :
                      /\ Line(b, <<0, j>>, <<1, j>>, <<2, j>>)
                      /\ \A k \in 0 .. 2 :
                            Line(b, <<0, k>>, <<1, k>>, <<2, k>>) => j <= k
         IN  b[<<0, j>>]
    ELSE IF Line(b, <<0, 0>>, <<1, 1>>, <<2, 2>>) THEN b[<<0, 0>>]
    ELSE IF Line(b, <<0, 2>>, <<1, 1>>, <<2, 0>>) THEN b[<<0, 2>>]
    ELSE NoWinner

terminal(b) ==
    IF winner(b) # NoWinner THEN TRUE
    ELSE IF \E c \in TCells : b[c] = EMPTY THEN FALSE
    ELSE TRUE

\* utility returns None (here NoWinner) on a board that is not terminal.
utility(b) ==
    IF terminal(b)
    THEN IF winner(b) = X THEN 1
         ELSE IF winner(b) = O THEN -1
         ELSE 0
    ELSE NoWinner

Min(S) == CHOOSE v \in S : \A w \in S : v <= w

Max(S) == CHOOSE v \in S : \A w \in S : v >= w

RECURSIVE min_value(_), max_value(_)

\* v = math.inf, then v = min(v, ...) over the actions: the least of the
\* values (a board that is not terminal has an action).
min_value(b) ==
    IF terminal(b) THEN utility(b)
    ELSE Min({ max_value(result(b, action)) : action \in actions(b) })

max_value(b) ==
    IF terminal(b) THEN utility(b)
    ELSE Max({ min_value(result(b, action)) : action \in actions(b) })

\* minimax with the two comparisons exchanged: X keeps the least value and
\* O the greatest.
minimax_reversed(b) ==
    IF terminal(b) THEN {None}
    ELSE IF player(b) = X
    THEN LET values == { <<a, min_value(result(b, a))>> : a \in actions(b) }
             best_value == Min({ av[2] : av \in values })
         IN  { av[1] : av \in { w \in values : w[2] = best_value } }
    ELSE LET values == { <<a, max_value(result(b, a))>> : a \in actions(b) }
             best_value == Max({ av[2] : av \in values })
         IN  { av[1] : av \in { w \in values : w[2] = best_value } }

\* The actions minimax can return: the loop keeps the first action, in the
\* iteration order of the set actions(board), whose value is strictly
\* better than the ones before it, so it returns one of the actions of
\* best value; which one depends on that order.
minimax(b) ==
    IF terminal(b) THEN {None}
    ELSE IF player(b) = X
    THEN LET values == { <<a, min_value(result(b, a))>> : a \in actions(b) }
             best_value == Max({ av[2] : av \in values })
         IN  { av[1] : av \in { w \in values : w[2] = best_value } }
    ELSE LET values == { <<a, max_value(result(b, a))>> : a \in actions(b) }
             best_value == Min({ av[2] : av \in values })
         IN  { av[1] : av \in { w \in values : w[2] = best_value } }

\* The player ttt.hero plays the action that minimax returns.
HeroMove ==
    /\ ~ terminal(ttt.board)
    /\ player(ttt.board) = ttt.hero
    /\ \E a \in minimax(ttt.board) :
          ttt' = [ttt EXCEPT !.board = result(ttt.board, a),
                             !.moves = @ + 1]
    /\ UNCHANGED <<board, moves_made, mines, safes, knowledge, pc, arg, pre,
                   observed, last>>

\* The other player (either player when there is no hero) plays any action.
AnyMove(a) ==
    /\ ~ terminal(ttt.board)
    /\ player(ttt.board) # ttt.hero
    /\ a \in actions(ttt.board)
    /\ ttt' = [ttt EXCEPT !.board = result(ttt.board, a), !.moves = @ + 1]
    /\ UNCHANGED <<board, moves_made, mines, safes, knowledge, pc, arg, pre,
                   observed, last>>

InitTTT ==
    /\ board = {}
    /\ moves_made = NewAI.moves_made
    /\ mines = NewAI.mines
    /\ safes = NewAI.safes
    /\ knowledge = NewAI.knowledge
    /\ pc = "idle"
    /\ arg = NoArg
    /\ pre = NewAI
    /\ observed = {}
    /\ last = NoLast
    /\ \E h \in {X, O, "none"} : ttt = [NewGame EXCEPT !.hero = h]

NextTTT ==
    \/ HeroMove
    \/ \E a \in TCells : AnyMove(a)

SpecTTT == InitTTT /\ [][NextTTT]_vars

(* ------------- result on board objects: the caller's board ------------- *)
(* A Python board is an object that the caller and result share.  heap is  *)
(* the sequence of the board objects alive during a call and a reference   *)
(* is a position in it.                                                    *)

\* new_board = board: the name bound to the argument itself.
no_copy(heap, ref) == [heap |-> heap, ref |-> ref]

\* copy.deepcopy(board), line 62: a new object with the cells of heap[ref].
deepcopy(heap, ref) == [heap |-> Append(heap, heap[ref]), ref |-> Len(heap) + 1]

\* result(board, action) with board the object ref (lines 52-65): the
\* objects after the call and the reference returned, 0 when the call
\* raises its Exception.
result_on(heap, ref, action) ==
    IF action \notin TCells THEN [heap |-> heap, ref |-> 0]
    ELSE IF heap[ref][action] # EMPTY THEN [heap |-> heap, ref |-> 0]
    ELSE LET new_board == deepcopy(heap, ref)
             current_player == player(new_board.heap[ref])
         IN  [heap |-> [new_board.heap EXCEPT
                            ![new_board.ref][action] = current_player],
              ref |-> new_board.ref]

\* A player plays any action: the caller holds the board object 1, calls
\* result on it and goes on with the board returned; ttt.input keeps what
\* the object 1 holds after the call.
Play(a) ==
    /\ ~ terminal(ttt.board)
    /\ a \in actions(ttt.board)
    /\ LET r == result_on(<<ttt.board>>, 1, a)
       IN  ttt' = [ttt EXCEPT !.board = r.heap[r.ref], !.input = r.heap[1],
                              !.moves = @ + 1]
    /\ UNCHANGED <<board, moves_made, mines, safes, knowledge, pc, arg, pre,
                   observed, last>>

InitPlay ==
    /\ board = {}
    /\ moves_made = NewAI.moves_made
    /\ mines = NewAI.mines
    /\ safes = NewAI.safes
    /\ knowledge = NewAI.knowledge
    /\ pc = "idle"
    /\ arg = NoArg
    /\ pre = NewAI
    /\ observed = {}
    /\ last = NoLast
    /\ ttt = [board |-> initial_state, hero |-> "none", moves |-> 0,
              input |-> initial_state]

NextPlay == \E a \in TCells : Play(a)

SpecPlay == InitPlay /\ [][NextPlay]_vars

Opponent(p) == IF p = X THEN O ELSE X

\* C18: when one player always plays the action returned by minimax and the
\* other plays any action, no terminal board is won by the other; and
\* minimax returns None exactly on a terminal board, otherwise an action of
\* actions(board).
C18_MinimaxNeverLoses ==
    ttt.hero # "none" =>
        LET returned == minimax(ttt.board)
        IN  /\ terminal(ttt.board) => winner(ttt.board) # Opponent(ttt.hero)
            /\ (None \in returned) <=> terminal(ttt.board)
            /\ ~ terminal(ttt.board) => returned \subseteq actions(ttt.board)

\* A game in which O followed minimax has ended with a win of O.
C18_Witness ==
    /\ ttt.hero = O
    /\ terminal(ttt.board)
    /\ winner(ttt.board) = O

\* On a board reached from initial_state: X has as many marks as O or one
\* more, player is X after an even number of moves and O after an odd one,
\* and the board is terminal once nine moves are made.
TurnOrder ==
    /\ Count(ttt.board, X) - Count(ttt.board, O) \in {0, 1}
    /\ Count(ttt.board, X) + Count(ttt.board, O) = ttt.moves
    /\ player(ttt.board) = IF ttt.moves % 2 = 0 THEN X ELSE O
    /\ ttt.moves <= 9
    /\ ttt.moves = 9 => terminal(ttt.board)

\* A move puts the mark of player(board) in one empty cell and changes no
\* other cell.
PlacesMark ==
    ttt'.board # ttt.board =>
        \E a \in TCells :
            /\ ttt.board[a] = EMPTY
            /\ ttt'.board = [ttt.board EXCEPT ![a] = player(ttt.board)]
            /\ ttt'.board[a] = IF ttt.moves % 2 = 0 THEN X ELSE O

\* The board object given to result holds after the call what it held
\* before it.
InputUnchanged ==
    ttt'.moves # ttt.moves => ttt'.input = ttt.board

\* C20: on every board reached from initial_state by result with actions of
\* actions(board), the X marks minus the O marks are 0 or 1, player
\* alternates X, O, X, ... starting with X, result places the mark of
\* player(board) in the chosen empty cell and leaves the board it was given
\* unchanged, and a terminal board is reached after at most 9 moves.
C20_TurnOrder == []TurnOrder /\ [][PlacesMark /\ InputUnchanged]_vars

\* A game has ended with the ninth move, won by X; the board given to the
\* last call of result is not the board returned.
C20_Witness ==
    /\ ttt.hero = "none"
    /\ ttt.moves = 9
    /\ terminal(ttt.board)
    /\ winner(ttt.board) = X
    /\ ttt.input # ttt.board
    /\ Count(ttt.input, EMPTY) = 1
====
